---- MODULE Spec2Model ----
(***************************************************************************)
(* The torrent session state and peer coordination engine of rqbit:        *)
(* PeerStates and TorrentState of crates/librqbit/src/torrent_state.rs,    *)
(* with the ChunkTracker and the per-peer piece-completion protocol they   *)
(* call into.  Every action is one critical section of the engine's        *)
(* reader-writer lock; code that runs between two critical sections of one *)
(* task is a position of that task (requester, checking, haves).           *)
(* ChunkTracker, Lengths, LivePeerState and the peer tasks lie outside the  *)
(* two source files; they follow the design specification (sections 4.1,   *)
(* 4.2, 4.5).                                                               *)
(***************************************************************************)
EXTENDS Integers, FiniteSets, Sequences, TLC

\* ------------------------------------------------------------------ bounds
NumPeers == 3        \* socket addresses that can be discovered
NumPieces == 2       \* total_pieces of the torrent
ChunksPerPiece == 2  \* chunks in every piece
MaxConnected == 2    \* peers the session is connected to at a time
MaxFetched == 2      \* chunks the peers deliver in one run (caps fetched_bytes)
MaxDuplicates == 1   \* further chunks delivered for a piece that is being checked

Addrs == 1..NumPeers
Pieces == 0..(NumPieces - 1)
Chunks == 0..(ChunksPerPiece - 1)
\* Byte counters are kept in units of one chunk.
PieceLength == ChunksPerPiece

VARIABLES
    states,            \* PeerStates.states: addr -> Absent | Connecting | Live{..}
    seen_peers,        \* PeerStates.seen_peers
    inflight_pieces,   \* PeerStates.inflight_pieces
    tx,                \* keys of PeerStates.tx
    needed,            \* ChunkTracker: needed pieces bitfield (set of ones)
    have,              \* ChunkTracker: have bitfield (set of ones)
    chunk_status,      \* ChunkTracker: received-but-unverified chunks, <<piece, chunk>>
    stats,             \* AtomicStats
    requester,         \* per peer: position of its chunk requester task
    checking,          \* <<peer, piece>>: check_piece_blocking running outside the lock
                       \* (two checks of one piece for one peer count as one)
    haves,             \* running task_transmit_haves instances
    chan,              \* per peer: Have(index) messages put on its channel
    reserve_count,     \* history: per piece, returns of reserve_next_needed_piece since its
                       \* needed bit was last set (by a cancellation or a re-arm)
    reserved_by,       \* history: per piece, peers that got it from reserve_next_needed_piece
    verified           \* history: pieces for which check_piece returned true

vars == <<states, seen_peers, inflight_pieces, tx, needed, have, chunk_status, stats,
          requester, checking, haves, chan, reserve_count, reserved_by, verified>>

peerVars == <<states, seen_peers, tx>>
chunkVars == <<needed, have, chunk_status>>
taskVars == <<requester, checking, haves, chan>>
histVars == <<reserve_count, reserved_by, verified>>

\* ------------------------------------------------------------ peer states
\* A state is a record of one shape; the Live fields of a peer that is not Live
\* hold the values of LivePeerState::new and are never read.
Absent ==
    [kind |-> "Absent", bitfield |-> {}, i_am_choked |-> TRUE, inflight_requests |-> {}]
Connecting ==
    [kind |-> "Connecting", bitfield |-> {}, i_am_choked |-> TRUE, inflight_requests |-> {}]
\* LivePeerState::new: no bitfield yet, choked by the remote, nothing in flight.
LivePeerStateNew ==
    [kind |-> "Live", bitfield |-> {}, i_am_choked |-> TRUE, inflight_requests |-> {}]

IsLive(h) == states[h].kind = "Live"

\* PeerStates::get_live: Some(l) as {l}, None as {}.
get_live(h) == IF IsLive(h) THEN {states[h]} ELSE {}

\* The keys of PeerStates.states.
StatesKeys == {h \in Addrs : states[h].kind # "Absent"}

\* --------------------------------------------------------------- bitfields
Pow2(n) == IF n = 0 THEN 1 ELSE IF n = 1 THEN 2 ELSE IF n = 2 THEN 4
           ELSE IF n = 3 THEN 8 ELSE IF n = 4 THEN 16 ELSE IF n = 5 THEN 32
           ELSE IF n = 6 THEN 64 ELSE 128

\* BF::from_vec: bit n of the bitfield is bit (7 - n mod 8) of byte n div 8
\* (MSB first).  A bitfield is kept as the set of its one positions, so that
\* bf.get(n) == Some(true) is n \in bf.
BFFromVec(v) ==
    {n \in 0..(8 * Len(v) - 1) : (v[(n \div 8) + 1] \div Pow2(7 - (n % 8))) % 2 = 1}

\* Bitfield messages the peers send, one byte each: a seed's (every piece of the
\* torrent) and that of a peer holding the last piece only.
BitfieldInputs == {<<256 - Pow2(8 - NumPieces)>>, <<Pow2(8 - NumPieces)>>}

\* Lengths: the byte length of a bitfield of the torrent, ceil(total_pieces / 8).
piece_bitfield_bytes == (NumPieces + 7) \div 8

\* Bitfield messages of a wrong length: an empty one and one a byte too long.
MalformedBitfields == {<<>>, <<255, 0>>}

\* Lengths::validate_piece_index: Some(n) as {n} when n is a piece of the torrent.
validate_piece_index(n) == IF n \in Pieces THEN {n} ELSE {}

\* Positions of a peer's requester task: idle; "reserve", between the read-locked
\* am_i_choked and the write lock of reserve_next_needed_piece; "got", holding a
\* piece whose chunk requests are still to be recorded.
Idle == [at |-> "idle", piece |-> 0]
Reserving == [at |-> "reserve", piece |-> 0]
Got(p) == [at |-> "got", piece |-> p]

\* ------------------------------------------------------------------- Init
Init ==
    /\ states = [h \in Addrs |-> Absent]
    /\ seen_peers = {}
    /\ inflight_pieces = {}
    /\ tx = {}
    /\ needed = Pieces
    /\ have = {}
    /\ chunk_status = {}
    /\ stats = [have |-> 0, downloaded_and_checked |-> 0, uploaded |-> 0,
                fetched_bytes |-> 0]
    /\ requester = [h \in Addrs |-> Idle]
    /\ checking = {}
    /\ haves = {}
    /\ chan = [h \in Addrs |-> {}]
    /\ reserve_count = [p \in Pieces |-> 0]
    /\ reserved_by = [p \in Pieces |-> {}]
    /\ verified = {}

\* ------------------------------------------------------------ engine lock
\* Every action is one critical section, so between two steps the lock is held
\* only by a task that keeps a guard alive across an await.
\* task_transmit_haves gone wrong: the read guard lives on while the sends are
\* awaited.
GuardHeldWhileSending == {TRUE}

\* The positions of task_transmit_haves (before the loop over tx: FALSE; awaiting
\* the sends: TRUE) between whose steps it holds the read guard: the guard is a
\* temporary of the loop header and is released when the loop is left.
GuardedPositions == {}

\* Some task holds self.locked.read() between two steps.
EngineReadLocked == \E t \in haves : t.snapshot \in GuardedPositions

\* self.locked.write() is granted.
locked_write == ~EngineReadLocked

\* ------------------------------------------------------------- PeerStates
\* PeerStates::add: the effect on states and tx; FALSE when the address has a state.
AddOk(addr) == addr \notin StatesKeys

Add(addr) ==
    /\ AddOk(addr)
    /\ states' = [states EXCEPT ![addr] = Connecting]
    /\ tx' = tx \cup {addr}
    /\ UNCHANGED seen_peers
    /\ UNCHANGED <<inflight_pieces, chunkVars, stats, taskVars, histVars>>

\* The runs explored: chunks are delivered in the sessions that have met at most
\* MaxConnected addresses; a session that replaces a dropped peer by a further
\* address is followed up to its first delivery.
NoChurn == Cardinality(seen_peers) <= MaxConnected

\* PeerStates::add_if_not_seen returning Some(handle).  Addresses are discovered
\* in ascending order (handles are opaque, any other order is a renaming), and
\* the session connects to at most MaxConnected peers at a time.
AddIfNotSeen(addr) ==
    /\ addr \notin seen_peers
    /\ \A a \in Addrs : a < addr => a \in seen_peers
    /\ Cardinality(StatesKeys) < MaxConnected
    /\ Cardinality(seen_peers) < MaxConnected \/ stats.fetched_bytes = 0
    /\ AddOk(addr)
    /\ states' = [states EXCEPT ![addr] = Connecting]
    /\ tx' = tx \cup {addr}
    /\ seen_peers' = seen_peers \cup {addr}
    /\ UNCHANGED <<inflight_pieces, chunkVars, stats, taskVars, histVars>>

\* drop_peer gone wrong: the sender of the dropped peer stays in tx.
TxKept(handle) == tx

\* self.tx.remove(&handle) of PeerStates::drop_peer.
TxRemove(handle) == tx \ {handle}

\* PeerStates::drop_peer: removes the address from states and from tx.
PeerStatesDropPeer(h) ==
    /\ h \in StatesKeys \/ h \in tx
    /\ states' = [states EXCEPT ![h] = Absent]
    /\ tx' = TxRemove(h)
    /\ UNCHANGED seen_peers
    /\ UNCHANGED <<inflight_pieces, chunkVars, stats, taskVars, histVars>>

\* set_peer_live gone wrong: whatever the address has, a fresh Live state is stored.
SetPeerLiveAnyState(h) ==
    /\ states[h] # LivePeerStateNew
    /\ states' = [states EXCEPT ![h] = LivePeerStateNew]
    /\ UNCHANGED <<seen_peers, tx, inflight_pieces, chunkVars, stats, taskVars, histVars>>

\* TorrentState::set_peer_live: Connecting becomes Live; anything else only warns.
SetPeerLive(h) ==
    /\ states[h].kind = "Connecting"
    /\ locked_write
    /\ states' = [states EXCEPT ![h] = LivePeerStateNew]
    /\ UNCHANGED <<seen_peers, tx, inflight_pieces, chunkVars, stats, taskVars, histVars>>

\* PeerStates::mark_i_am_choked on a live peer (None, and no change, otherwise);
\* a call that stores the value already there is a step that changes nothing.
MarkIAmChoked(h, is_choked) ==
    /\ IsLive(h)
    /\ states[h].i_am_choked # is_choked
    /\ states' = [states EXCEPT ![h].i_am_choked = is_choked]
    /\ UNCHANGED <<seen_peers, tx, inflight_pieces, chunkVars, stats, taskVars, histVars>>

\* PeerStates::update_bitfield_from_vec on a live peer: the bitfield is replaced.
UpdateBitfieldFromVec(h, bitfield) ==
    /\ IsLive(h)
    /\ states' = [states EXCEPT ![h].bitfield = {BFFromVec(bitfield)}]
    /\ UNCHANGED <<seen_peers, tx, inflight_pieces, chunkVars, stats, taskVars, histVars>>

\* ----------------------------------------------------------- ChunkTracker
\* ChunkTracker::reserve_needed_piece: clears the bit in needed.
reserve_needed_piece(piece) == needed \ {piece}

\* The pieces a run of mark_chunk_request_cancelled over reqs returns to the pool:
\* a piece that is already have stays as it is.
CancelledPieces(reqs) == {r[1] : r \in reqs} \ have

\* ChunkTracker::mark_chunk_request_cancelled for every request of reqs: the bit
\* in needed is set and the partial chunk bitmap of the piece is cleared.
CancelledNeeded(reqs) == needed \cup CancelledPieces(reqs)
CancelledChunkStatus(reqs) == {cs \in chunk_status : cs[1] \notin CancelledPieces(reqs)}

\* The chunk bitmap after ChunkTracker::mark_chunk_downloaded(piece, chunk).
DownloadedChunkStatus(piece, chunk) ==
    IF piece \in have THEN chunk_status ELSE chunk_status \cup {<<piece, chunk>>}

\* ChunkTracker::mark_chunk_downloaded: the outcome.
PieceOutcome(piece, chunk) ==
    IF piece \in have THEN "AlreadyHave"
    ELSE IF \A c \in Chunks : <<piece, c>> \in DownloadedChunkStatus(piece, chunk)
         THEN "PieceComplete"
         ELSE "NotLastChunk"

\* ChunkTracker::mark_piece_have: sets the bit in have.
mark_piece_have(piece) == have \cup {piece}

\* Re-arming a piece: its bit in needed is set, its chunk bitmap wiped.
RearmedNeeded(piece) == needed \cup {piece}
RearmedChunkStatus(piece) == {cs \in chunk_status : cs[1] # piece}

\* ------------------------------------------------------------ TorrentState
SetMin(S) == CHOOSE n \in S : \A m \in S : n <= m

\* The scan gone wrong: the peer's bitfield is scanned without looking at needed.
FirstAdvertisedIn(bf) ==
    LET adv == {n \in Pieces : n \in bf}
    IN IF adv = {} THEN {} ELSE {SetMin(adv)}

\* The scan gone wrong: the last needed piece the peer advertises is taken.
LastNeededIn(bf) ==
    LET both == {n \in needed : n \in bf}
    IN IF both = {} THEN {} ELSE {CHOOSE n \in both : \A m \in both : m <= n}

\* The scan of get_next_needed_piece and reserve_next_needed_piece: the first one
\* of needed (ascending) that is also set in bf; None as {}.
FirstNeededIn(bf) ==
    LET both == {n \in needed : n \in bf}
    IN IF both = {} THEN {} ELSE {SetMin(both)}

\* TorrentState::get_next_needed_piece (read lock, no change): None ({}) unless
\* the peer is live, has a bitfield and advertises a needed piece.
get_next_needed_piece(peer_handle) ==
    UNION {UNION {UNION {validate_piece_index(n) : n \in FirstNeededIn(bf)}
                  : bf \in l.bitfield}
           : l \in get_live(peer_handle)}

\* The block of reserve_next_needed_piece that computes n under the write lock.
ReserveSelect(peer_handle) ==
    UNION {UNION {UNION {validate_piece_index(n_opt) : n_opt \in FirstNeededIn(bf)}
                  : bf \in l.bitfield}
           : l \in get_live(peer_handle)}

\* TorrentState::am_i_choked (read lock).
am_i_choked(peer_handle) == {l.i_am_choked : l \in get_live(peer_handle)}

\* reserve_next_needed_piece, first critical section: am_i_choked(peer_handle)?
\* under the read lock.  None or Some(true) returns None at once and changes nothing.
ReserveCheckChoked(h) ==
    /\ requester[h] = Idle
    /\ am_i_choked(h) = {FALSE}
    /\ requester' = [requester EXCEPT ![h] = Reserving]
    /\ UNCHANGED <<peerVars, inflight_pieces, chunkVars, stats, checking, haves, chan,
                   histVars>>

\* reserve_next_needed_piece, second critical section (write lock): select, insert
\* into inflight_pieces, reserve_needed_piece.
ReserveWrite(h) ==
    /\ requester[h] = Reserving
    /\ locked_write
    /\ IF ReserveSelect(h) = {}
       THEN /\ requester' = [requester EXCEPT ![h] = Idle]
            /\ UNCHANGED <<inflight_pieces, needed, reserve_count, reserved_by>>
       ELSE LET n == CHOOSE n \in ReserveSelect(h) : TRUE
            IN /\ inflight_pieces' = inflight_pieces \cup {n}
               /\ needed' = reserve_needed_piece(n)
               /\ requester' = [requester EXCEPT ![h] = Got(n)]
               /\ reserve_count' = [reserve_count EXCEPT ![n] = @ + 1]
               /\ reserved_by' = [reserved_by EXCEPT ![n] = @ \cup {h}]
    /\ UNCHANGED <<peerVars, have, chunk_status, stats, checking, haves, chan, verified>>

\* try_steal_piece gone wrong: the peer's own requests are not filtered out.
StealCandidatesUnfiltered(handle) == IF IsLive(handle) THEN inflight_pieces ELSE {}

\* The pieces try_steal_piece chooses among: inflight_pieces minus those the peer
\* already has a request in flight for; nothing for a peer that is not live.
StealCandidates(handle) ==
    UNION {{p \in inflight_pieces : \A req \in pl.inflight_requests : req[1] # p}
           : pl \in get_live(handle)}

\* TorrentState::try_steal_piece returning Some(p) (read lock, random choice); a
\* requester may call it whenever it is between two pieces.
TryStealPiece(h) ==
    /\ requester[h] = Idle
    /\ \E p \in StealCandidates(h) :
        requester' = [requester EXCEPT ![h] = Got(p)]
    /\ UNCHANGED <<peerVars, inflight_pieces, chunkVars, stats, checking, haves, chan,
                   histVars>>

\* The requester records the chunk requests of the piece it was given in its own
\* inflight_requests (write lock).
RecordRequests(h) ==
    /\ requester[h].at = "got"
    /\ locked_write
    /\ IsLive(h)
    /\ requester' = [requester EXCEPT ![h] = Idle]
    /\ states' = [states EXCEPT ![h].inflight_requests =
                      @ \cup {<<requester[h].piece, c>> : c \in Chunks}]
    /\ UNCHANGED <<seen_peers, tx, inflight_pieces, chunkVars, stats, checking, haves,
                   chan, histVars>>

\* drop_peer gone wrong: the dropped peer's requests are forgotten.
DroppedRequestsNone(h) == {}

\* drop_peer gone wrong: the requests of every live peer are handed back.
DroppedRequestsOfAll(h) == UNION {states[a].inflight_requests : a \in Addrs}

\* The requests TorrentState::drop_peer hands back to the tracker: the
\* inflight_requests of a Live peer, nothing for a Connecting one.
DroppedRequests(h) == IF IsLive(h) THEN states[h].inflight_requests ELSE {}

\* TorrentState::drop_peer (write lock).  The dropped peer's requester task ends
\* with it: get_live fails in every step it could still take, so none of them
\* would change anything.
DropPeer(h) ==
    /\ h \in StatesKeys \/ h \in tx
    /\ locked_write
    /\ states' = [states EXCEPT ![h] = Absent]
    /\ tx' = TxRemove(h)
    /\ needed' = CancelledNeeded(DroppedRequests(h))
    /\ chunk_status' = CancelledChunkStatus(DroppedRequests(h))
    /\ reserve_count' = [p \in Pieces |->
                           IF p \in needed' \ needed THEN 0 ELSE reserve_count[p]]
    /\ reserved_by' = [p \in Pieces |-> reserved_by[p] \ {h}]
    /\ requester' = [requester EXCEPT ![h] = Idle]
    /\ UNCHANGED <<seen_peers, inflight_pieces, have, stats, checking, haves, chan,
                   verified>>

\* A live peer's task reads a Bitfield message: one of the torrent's length
\* replaces the peer's bitfield, any other is a protocol violation that ends the
\* task, and the peer is dropped.
OnBitfield(h, bitfield) ==
    /\ IsLive(h)
    /\ IF Len(bitfield) = piece_bitfield_bytes
       THEN UpdateBitfieldFromVec(h, bitfield)
       ELSE DropPeer(h)

\* PeerStates::remove_inflight_piece.
remove_inflight_piece(piece) == inflight_pieces \ {piece}

\* Every live peer's inflight_requests without those of piece.
WithoutRequestsFor(piece) ==
    [h \in Addrs |->
        [states[h] EXCEPT !.inflight_requests = {r \in @ : r[1] # piece}]]

\* A chunk the peer was asked for arrives: it is written, taken off the peer's
\* inflight_requests and marked downloaded (write lock); a completed piece goes
\* to check_piece_blocking outside the lock.
ChunkMarked(h, p, c) ==
    /\ IsLive(h)
    /\ locked_write
    /\ <<p, c>> \in states[h].inflight_requests
    /\ states' = [states EXCEPT ![h].inflight_requests = @ \ {<<p, c>>}]
    /\ chunk_status' = DownloadedChunkStatus(p, c)
    /\ checking' = IF PieceOutcome(p, c) = "PieceComplete"
                   THEN checking \cup {<<h, p>>} ELSE checking
    /\ UNCHANGED <<seen_peers, tx, inflight_pieces, needed, have, requester, haves, chan,
                   histVars>>

\* The arriving chunk is counted in fetched_bytes.
ChunkArrives(h, p, c) ==
    /\ ChunkMarked(h, p, c)
    /\ stats' = [stats EXCEPT !.fetched_bytes = @ + 1]

\* Chunks arrive without limit; fetched_bytes is followed up to MaxFetched.
DeliverOnward(h, p, c) ==
    /\ ChunkMarked(h, p, c)
    /\ stats' = [stats EXCEPT !.fetched_bytes = IF @ < MaxFetched THEN @ + 1 ELSE @]

\* One of the MaxFetched chunks of a run arrives.
DeliverChunk(h, p, c) ==
    /\ stats.fetched_bytes < MaxFetched
    /\ NoChurn
    /\ ChunkArrives(h, p, c)

\* A chunk arrives for a piece that another delivery has completed and whose hash
\* check has not come back yet: the peers of an endgame deliver up to
\* MaxDuplicates such chunks on top of the MaxFetched of the run.
DeliverDuplicate(h, p, c) ==
    /\ stats.fetched_bytes < MaxFetched + MaxDuplicates
    /\ \E hc \in Addrs : <<hc, p>> \in checking
    /\ ChunkArrives(h, p, c)

\* check_piece_blocking returned true: mark_piece_have, remove from inflight_pieces,
\* count the piece, clear its requests everywhere (write lock); then the Have
\* broadcast is scheduled.
PieceValid(h, p) ==
    /\ <<h, p>> \in checking
    /\ locked_write
    /\ checking' = checking \ {<<h, p>>}
    /\ have' = mark_piece_have(p)
    /\ inflight_pieces' = remove_inflight_piece(p)
    /\ stats' = [stats EXCEPT !.have = @ + PieceLength,
                              !.downloaded_and_checked = @ + PieceLength]
    /\ states' = WithoutRequestsFor(p)
    /\ haves' = haves \cup {[index |-> p, snapshot |-> FALSE, todo |-> {}]}
    /\ verified' = verified \cup {p}
    /\ reserved_by' = [reserved_by EXCEPT ![p] = {}]
    /\ UNCHANGED <<seen_peers, tx, needed, chunk_status, requester, chan, reserve_count>>

\* check_piece_blocking returned false: the piece is re-armed (write lock).
PieceInvalid(h, p) ==
    /\ <<h, p>> \in checking
    /\ locked_write
    /\ checking' = checking \ {<<h, p>>}
    /\ needed' = RearmedNeeded(p)
    /\ chunk_status' = RearmedChunkStatus(p)
    /\ inflight_pieces' = remove_inflight_piece(p)
    /\ states' = WithoutRequestsFor(p)
    /\ reserve_count' = [reserve_count EXCEPT ![p] = 0]
    /\ reserved_by' = [reserved_by EXCEPT ![p] = {}]
    /\ UNCHANGED <<seen_peers, tx, have, stats, requester, haves, chan, verified>>

\* task_transmit_haves, the loop header: weak handles to every tx under the read lock.
TransmitHavesSnapshot(t) ==
    /\ t \in haves
    /\ ~t.snapshot
    /\ haves' = (haves \ {t}) \cup
                (IF tx = {} THEN {} ELSE {[t EXCEPT !.snapshot = TRUE, !.todo = tx]})
    /\ UNCHANGED <<peerVars, inflight_pieces, chunkVars, stats, requester, checking, chan,
                   histVars>>

\* The broadcast gone wrong: the index of the following piece is sent.
HaveMessageNext(index) == (index + 1) % NumPieces

\* The message one future of task_transmit_haves sends.
HaveMessage(index) == index

\* The task with the future for h finished; the task ends with its last future.
HavesAfter(t, h) ==
    (haves \ {t}) \cup (IF t.todo = {h} THEN {} ELSE {[t EXCEPT !.todo = @ \ {h}]})

\* One future of task_transmit_haves: the weak handle upgrades and Have(index) is
\* put on the peer's channel.
TransmitHavesSend(t, h) ==
    /\ t \in haves
    /\ t.snapshot
    /\ h \in t.todo
    /\ chan' = [chan EXCEPT ![h] = @ \cup {HaveMessage(t.index)}]
    /\ haves' = HavesAfter(t, h)
    /\ UNCHANGED <<peerVars, inflight_pieces, chunkVars, stats, requester, checking,
                   histVars>>

\* One future of task_transmit_haves: the upgrade fails (the peer was dropped) or
\* the send fails (the channel is closed); the error is swallowed.
TransmitHavesSkip(t, h) ==
    /\ t \in haves
    /\ t.snapshot
    /\ h \in t.todo
    /\ haves' = HavesAfter(t, h)
    /\ UNCHANGED <<peerVars, inflight_pieces, chunkVars, stats, requester, checking, chan,
                   histVars>>

\* ------------------------------------------------------------------- Next
HaveTasks == [index : Pieces, snapshot : BOOLEAN, todo : SUBSET Addrs]

Next ==
    \/ \E h \in Addrs : AddIfNotSeen(h)
    \/ \E h \in Addrs : SetPeerLive(h)
    \/ \E h \in Addrs, b \in BOOLEAN : MarkIAmChoked(h, b)
    \/ \E h \in Addrs, v \in BitfieldInputs \cup MalformedBitfields : OnBitfield(h, v)
    \/ \E h \in Addrs : ReserveCheckChoked(h)
    \/ \E h \in Addrs : ReserveWrite(h)
    \/ \E h \in Addrs : TryStealPiece(h)
    \/ \E h \in Addrs : RecordRequests(h)
    \/ \E h \in Addrs, p \in Pieces, c \in Chunks : DeliverChunk(h, p, c)
    \/ \E h \in Addrs, p \in Pieces : PieceValid(h, p)
    \/ \E h \in Addrs, p \in Pieces : PieceInvalid(h, p)
    \/ \E h \in Addrs : DropPeer(h)
    \/ \E t \in HaveTasks : TransmitHavesSnapshot(t)
    \/ \E t \in HaveTasks, h \in Addrs : TransmitHavesSend(t, h)
    \/ \E t \in HaveTasks, h \in Addrs : TransmitHavesSkip(t, h)

Spec == Init /\ [][Next]_vars

\* The registry alone, under any sequence of calls of its public operations.
NextPeerStates ==
    \/ \E h \in Addrs : AddIfNotSeen(h)
    \/ \E h \in Addrs : Add(h)
    \/ \E h \in Addrs : PeerStatesDropPeer(h)
    \/ \E h \in Addrs : SetPeerLive(h)
    \/ \E h \in Addrs, b \in BOOLEAN : MarkIAmChoked(h, b)
    \/ \E h \in Addrs, v \in BitfieldInputs : UpdateBitfieldFromVec(h, v)

SpecPeerStates == Init /\ [][NextPeerStates]_vars

\* The endgame: two peers work on the same pieces through stealing, nobody is
\* dropped, and chunks of a piece keep arriving while its hash check runs.
NextEndgame ==
    \/ \E h \in Addrs : AddIfNotSeen(h)
    \/ \E h \in Addrs : SetPeerLive(h)
    \/ \E h \in Addrs, b \in BOOLEAN : MarkIAmChoked(h, b)
    \/ \E h \in Addrs, v \in BitfieldInputs : UpdateBitfieldFromVec(h, v)
    \/ \E h \in Addrs : ReserveCheckChoked(h)
    \/ \E h \in Addrs : ReserveWrite(h)
    \/ \E h \in Addrs : TryStealPiece(h)
    \/ \E h \in Addrs : RecordRequests(h)
    \/ \E h \in Addrs, p \in Pieces, c \in Chunks : DeliverChunk(h, p, c)
    \/ \E h \in Addrs, p \in Pieces, c \in Chunks : DeliverDuplicate(h, p, c)
    \/ \E h \in Addrs, p \in Pieces : PieceValid(h, p)
    \/ \E h \in Addrs, p \in Pieces : PieceInvalid(h, p)

SpecEndgame == Init /\ [][NextEndgame]_vars

\* The download to its end: chunks keep arriving, every hash check passes, and a
\* requester steals only when reserve_next_needed_piece has nothing for it.
StealTail(h) ==
    /\ get_next_needed_piece(h) = {}
    /\ TryStealPiece(h)

\* The peer that serves the whole torrent: the first address admitted.  It sends
\* the bitfield of a seed, unchokes us, delivers what it is asked for and is
\* never dropped.  The session meets MaxConnected addresses; the other peers
\* send neither a bitfield nor an unchoke nor a chunk: they connect, steal, ask
\* and are dropped.
GoodPeer == CHOOSE h \in Addrs : \A a \in Addrs : h <= a
SeedBitfield == <<256 - Pow2(8 - NumPieces)>>

Admit(h) ==
    /\ Cardinality(seen_peers) < MaxConnected
    /\ AddIfNotSeen(h)

NextLive ==
    \/ \E h \in Addrs : Admit(h)
    \/ \E h \in Addrs : SetPeerLive(h)
    \/ MarkIAmChoked(GoodPeer, FALSE)
    \/ UpdateBitfieldFromVec(GoodPeer, SeedBitfield)
    \/ \E h \in Addrs : ReserveCheckChoked(h)
    \/ \E h \in Addrs : ReserveWrite(h)
    \/ \E h \in Addrs : StealTail(h)
    \/ \E h \in Addrs : RecordRequests(h)
    \/ \E p \in Pieces, c \in Chunks : DeliverOnward(GoodPeer, p, c)
    \/ \E h \in Addrs, p \in Pieces : PieceValid(h, p)
    \/ \E h \in Addrs \ {GoodPeer} : DropPeer(h)

\* The peer tasks are scheduled fairly: a requester's step, the return of a hash
\* check and the arrival of a chunk that was asked for are not put off forever.
FairLive ==
    /\ \A h \in Addrs : WF_vars(ReserveCheckChoked(h))
    /\ \A h \in Addrs : WF_vars(ReserveWrite(h))
    /\ \A h \in Addrs : WF_vars(StealTail(h))
    /\ \A h \in Addrs : WF_vars(RecordRequests(h))
    /\ \A h \in Addrs, p \in Pieces : WF_vars(PieceValid(h, p))
    /\ \A p \in Pieces, c \in Chunks : WF_vars(DeliverOnward(GoodPeer, p, c))

SpecLive == Init /\ [][NextLive]_vars /\ FairLive

\* ------------------------------------------------------------------ claims
\* C1: no piece is returned by two calls of reserve_next_needed_piece (by the
\* same or by different peers) unless a cancellation or a re-arm set its needed
\* bit again in between: the piece is selected, put in inflight_pieces and taken
\* out of needed in one write-locked step.
C1_ReserveNeverTwice == \A p \in Pieces : reserve_count[p] <= 1

\* Two peers were inside reserve_next_needed_piece at once and each came back
\* with a piece of its own.
C1_Witness ==
    \E h1, h2 \in Addrs :
        /\ h1 # h2
        /\ requester[h1] = Got(0) /\ reserved_by[0] = {h1} /\ reserve_count[0] = 1
        /\ requester[h2] = Got(1) /\ reserved_by[1] = {h2} /\ reserve_count[1] = 1

\* C2: in every reachable state, every piece that is neither verified nor
\* re-armed by a failed hash check since is held through
\* reserve_next_needed_piece by at most one registered peer.
C2_ReservationExclusive ==
    \A p \in Pieces : Cardinality(reserved_by[p] \cap StatesKeys) <= 1

\* No operation is in progress: no requester is between two of its steps and no
\* hash check is running.
Quiescent == checking = {} /\ \A h \in Addrs : requester[h] = Idle

\* C3: whenever no operation is in progress, popcount(have) + popcount(needed) +
\* |inflight_pieces| = total_pieces.
C3_PieceAccounting ==
    Quiescent => Cardinality(have) + Cardinality(needed) + Cardinality(inflight_pieces)
                    = NumPieces

\* C4: have and needed are disjoint in every reachable state, and every have bit
\* was set after check_piece returned true for the piece.
C4_HaveNeededDisjoint == have \cap needed = {} /\ have \subseteq verified

\* C5: in every state a piece is in inflight_pieces exactly when its needed bit
\* and its have bit are both clear.
C5_InflightIffReserved ==
    \A p \in Pieces : p \in inflight_pieces <=> (p \notin needed /\ p \notin have)

\* C6: in every state, the piece of every InflightRequest of every Live peer is in
\* inflight_pieces.
C6_RequestsAreInflight ==
    \A h \in Addrs : IsLive(h) =>
        \A req \in states[h].inflight_requests : req[1] \in inflight_pieces

\* C7: a step that drops a Live peer h leaves every piece h had a request in
\* flight for either in needed with no chunk of it marked received, or have; and
\* h is then in neither states nor tx.
C7_DropReturnsRequests ==
    [][\A h \in Addrs :
          (IsLive(h) /\ states'[h].kind = "Absent") =>
              /\ h \notin tx'
              /\ \A req \in states[h].inflight_requests :
                    \/ req[1] \in have'
                    \/ /\ req[1] \in needed'
                       /\ \A c \in Chunks : <<req[1], c>> \notin chunk_status']_vars

\* A peer delivered one chunk of a piece and was dropped: the piece is needed
\* again and its chunk bitmap is empty.
C7_Witness ==
    /\ stats.fetched_bytes = 1
    /\ have = {} /\ chunk_status = {} /\ needed = Pieces
    /\ \E h \in seen_peers : states[h].kind = "Absent"

\* C8: a piece handed to a peer by reserve_next_needed_piece or try_steal_piece,
\* or reported by get_next_needed_piece, is set in the bitfield the peer has
\* advertised at that moment.
C8_OnlyAdvertisedPieces ==
    /\ [][\A h \in Addrs, p \in Pieces :
            (requester'[h] = Got(p) /\ requester[h] # Got(p)) =>
                \E bf \in states[h].bitfield : p \in bf]_vars
    /\ [](\A h \in Addrs : \A p \in get_next_needed_piece(h) :
                \E bf \in states[h].bitfield : p \in bf)

\* C9: in every reachable state, every Have(p) that task_transmit_haves has put on
\* a peer's channel names a piece that is have.
C9_HaveAfterMarked == \A h \in Addrs : \A p \in chan[h] : p \in have

\* A Have was put on the channel of some peer.
C9_Witness == \E h \in Addrs : chan[h] # {}

\* C10: in every state of the registry seen_peers holds every key of states.
C10_SeenSupersetOfStates == StatesKeys \subseteq seen_peers

\* C11: in every reachable state every key of tx is a key of states: add inserts
\* into both and drop_peer removes from both in one write-locked step.
C11_TxKeysAreStatesKeys == tx \subseteq StatesKeys

\* One peer was added and dropped again while another one is still registered
\* with its sender.
C11_Witness ==
    \E h1, h2 \in Addrs :
        /\ h1 \in seen_peers /\ h1 \notin StatesKeys /\ h1 \notin tx
        /\ h2 \in StatesKeys /\ h2 \in tx

C15_ReserveOnlyUnchoked ==
    [][\A h \in Addrs :
          ReserveWrite(h) =>
              IF am_i_choked(h) = {FALSE}
              THEN TRUE
              ELSE /\ requester'[h] = Idle
                   /\ needed' = needed
                   /\ inflight_pieces' = inflight_pieces]_vars

\* C16: try_steal_piece(h) returns a piece of inflight_pieces for which the Live
\* peer h holds no InflightRequest, has nothing to return exactly when there is
\* no such piece or h is not Live, and changes no state (only the caller goes on
\* with the piece); so a peer B without a request on a piece p that A reserved
\* can get p by stealing.
C16_StealReadsOnly ==
    /\ [][\A h \in Addrs :
            TryStealPiece(h) =>
                /\ IsLive(h)
                /\ requester'[h].at = "got"
                /\ requester'[h].piece \in inflight_pieces
                /\ \A req \in states[h].inflight_requests : req[1] # requester'[h].piece
                /\ \A a \in Addrs \ {h} : requester'[a] = requester[a]
                /\ UNCHANGED <<states, seen_peers, tx, inflight_pieces, needed, have,
                               chunk_status, stats>>]_vars
    /\ [](\A h \in Addrs :
            StealCandidates(h) = {} <=>
                \/ ~IsLive(h)
                \/ \A p \in inflight_pieces :
                      \E req \in states[h].inflight_requests : req[1] = p)
    /\ [](\A a, b \in Addrs, p \in Pieces :
            (/\ a # b /\ a \in reserved_by[p] /\ p \in inflight_pieces
             /\ IsLive(b) /\ \A req \in states[b].inflight_requests : req[1] # p)
                => p \in StealCandidates(b))

\* A reserved piece 0 and holds its requests; B, with no request of its own,
\* came back from try_steal_piece with piece 0.
C16_Witness ==
    \E a, b \in Addrs :
        /\ a # b
        /\ reserved_by[0] = {a}
        /\ IsLive(a) /\ <<0, 0>> \in states[a].inflight_requests
        /\ IsLive(b) /\ states[b].inflight_requests = {}
        /\ requester[b] = Got(0)

\* The smallest index that is needed and set in the bitfield of the Live peer h,
\* as a set of at most one element.
LowestNeededAdvertised(h) ==
    IF IsLive(h) /\ states[h].bitfield # {}
    THEN LET bf == CHOOSE b \in states[h].bitfield : TRUE
             cand == {n \in Pieces : n \in needed /\ n \in bf}
         IN {n \in cand : \A m \in cand : n <= m}
    ELSE {}

\* C17: get_next_needed_piece(h) is the smallest index that is needed and set in
\* h's bitfield (None if h is not Live, has no bitfield, or there is none), and
\* reserve_next_needed_piece(h), taking the write lock for an unchoked Live h,
\* reserves exactly the index get_next_needed_piece(h) reports in that state.
C17_LowestIndexFirst ==
    /\ [](\A h \in Addrs : get_next_needed_piece(h) = LowestNeededAdvertised(h))
    /\ [][\A h \in Addrs :
            (ReserveWrite(h) /\ am_i_choked(h) = {FALSE}) =>
                /\ get_next_needed_piece(h) = {} => requester'[h] = Idle
                /\ \A n \in get_next_needed_piece(h) :
                      /\ requester'[h] = Got(n)
                      /\ inflight_pieces' = inflight_pieces \cup {n}
                      /\ needed' = needed \ {n}]_vars

\* A peer advertising both pieces reserved piece 1 after piece 0 was taken, and
\* another peer, advertising both as well, has piece 0.
C17_Witness ==
    \E a, b \in Addrs :
        /\ a # b
        /\ IsLive(a) /\ states[a].bitfield = {Pieces} /\ requester[a] = Got(1)
        /\ IsLive(b) /\ states[b].bitfield = {Pieces} /\ requester[b] = Got(0)
        /\ reserved_by[1] = {a} /\ reserved_by[0] = {b}
        /\ needed = {}

\* The moves of a peer's state: created Connecting, Connecting to Live, and from
\* either to dropped.
ForwardMoves ==
    {<<"Absent", "Connecting">>, <<"Connecting", "Live">>, <<"Connecting", "Absent">>,
     <<"Live", "Absent">>}

\* C18: a peer's state only moves forward, Connecting -> Live -> dropped;
\* set_peer_live acts on a Connecting peer only, giving it a fresh Live state with nothing in flight, so a Live
\* peer keeps its bitfield, choke flag and requests and an absent peer is not
\* created; a peer that is not Live carries no bitfield, flag or request that
\* mark_i_am_choked or update_bitfield_from_vec could have written.
C18_PeerStateForward ==
    /\ [][\A h \in Addrs :
            /\ states'[h].kind # states[h].kind =>
                  /\ <<states[h].kind, states'[h].kind>> \in ForwardMoves
                  /\ states'[h].kind = "Live" => states'[h] = LivePeerStateNew
            /\ (IsLive(h) /\ states'[h].kind = "Live" /\ states[h].bitfield # {})
                  => states'[h].bitfield # {}
            /\ SetPeerLive(h) =>
                  /\ states[h].kind = "Connecting"
                  /\ \A a \in Addrs \ {h} : states'[a] = states[a]]_vars
    /\ [](\A h \in Addrs : ~IsLive(h) => states[h] \in {Absent, Connecting})

\* One peer became Live, reserved a piece, asked for it and was dropped; another
\* one became Live, received its bitfield and was unchoked, and a third is
\* Connecting.
C18_Witness ==
    \E h, a, b \in Addrs :
        /\ h \in seen_peers /\ states[h].kind = "Absent"
        /\ inflight_pieces # {} /\ needed = Pieces
        /\ IsLive(a) /\ states[a].bitfield # {} /\ ~states[a].i_am_choked
        /\ states[b].kind = "Connecting"

\* The sends a running task_transmit_haves is awaiting: <<task, peer>>.
AwaitedSends == {s \in haves \X Addrs : s[1].snapshot /\ s[2] \in s[1].todo}

\* C19: while task_transmit_haves awaits a send - for as long as the peer's
\* channel stays full, or to a peer that was dropped after the snapshot - it
\* holds no engine lock: reserve_next_needed_piece, drop_peer and set_peer_live
\* can take the write lock whenever they have something to do; and the send
\* ends, done or failed, with the task going on to return Ok: it changes nothing
\* but the peer's channel and the task itself.
C19_BroadcastHoldsNoLock ==
    /\ [](AwaitedSends # {} =>
            /\ ~EngineReadLocked
            /\ \A a \in Addrs :
                  /\ a \in StatesKeys => ENABLED DropPeer(a)
                  /\ states[a].kind = "Connecting" => ENABLED SetPeerLive(a)
                  /\ requester[a] = Reserving => ENABLED ReserveWrite(a))
    /\ [](\A s \in AwaitedSends :
            ENABLED TransmitHavesSend(s[1], s[2]) /\ ENABLED TransmitHavesSkip(s[1], s[2]))
    /\ [][\A t \in haves, h \in Addrs :
            (t \notin haves' /\ (TransmitHavesSend(t, h) \/ TransmitHavesSkip(t, h))) =>
                /\ haves' = HavesAfter(t, h)
                /\ \A a \in Addrs \ {h} : chan'[a] = chan[a]
                /\ UNCHANGED <<states, seen_peers, tx, inflight_pieces, needed, have,
                               chunk_status, stats, requester, checking>>]_vars

\* A broadcast awaits its send to a peer that was dropped after the snapshot,
\* while another peer is between the two critical sections of
\* reserve_next_needed_piece.
C19_Witness ==
    \E s \in AwaitedSends, a \in Addrs :
        /\ s[2] \notin StatesKeys
        /\ requester[a] = Reserving

\* C20: a step that drops peer h leaves every piece that h got from
\* reserve_next_needed_piece and that is not have either in needed or with an
\* InflightRequest held by another Live peer - also when h is dropped before
\* it recorded a request for the piece.
C20_NoOrphanedPiece ==
    [][\A h \in Addrs :
          (h \in StatesKeys /\ h \notin StatesKeys') =>
              \A p \in Pieces :
                  (h \in reserved_by[p] /\ p \notin have') =>
                      \/ p \in needed'
                      \/ \E a \in Addrs \ {h} :
                            /\ states'[a].kind = "Live"
                            /\ \E req \in states'[a].inflight_requests : req[1] = p]_vars

\* The good peer is Live, does not choke us and advertises every piece.
GoodPeerServes ==
    /\ IsLive(GoodPeer)
    /\ ~states[GoodPeer].i_am_choked
    /\ \E bf \in states[GoodPeer].bitfield : Pieces \subseteq bf

\* C21: with the peer tasks scheduled fairly, if a peer that advertises every
\* piece stays Live and unchoked and every hash check passes, then eventually
\* every piece is have, with needed and inflight_pieces both empty, whatever
\* the other peers steal and whenever they are dropped.
C21_DownloadCompletes ==
    <>[]GoodPeerServes => <>(have = Pieces /\ needed = {} /\ inflight_pieces = {})

====
